---- MODULE Spec2Model ----
(***************************************************************************)
(* Stone Pattern Generator (src/app.py).                                   *)
(*                                                                         *)
(* Three specifications over one set of variables:                         *)
(*   Spec      detect_and_move_flakes on images whose pixels are stored    *)
(*   SpecScan  detect_and_move_flakes on large images whose pixel content  *)
(*             is not represented (per-tile detection is a free input)     *)
(*   SpecLoad  load_large_image                                            *)
(*                                                                         *)
(* Fractions (the three slider values) are records [n |-> , d |-> ] with   *)
(* d > 0.  Every fraction used is dyadic, so the float64 arithmetic of the *)
(* source is exact on it and int() / // are the integer quotients below.   *)
(* Arrays are records [shape, data]; indices are 0-based as in the source  *)
(* and data is stored 1-based (data[r+1][c+1]).                            *)
(***************************************************************************)
EXTENDS Integers, Sequences, FiniteSets, TLC

VARIABLES
  img_array,       \* np.array(image), the canonical image
  new_image,       \* the working output buffer
  params,          \* [ri, fsr, cs]: the three arguments
  height, width,
  max_flake_size, step_size,
  total_steps, current_step,
  progress,        \* last value handed to progress_bar.progress, a fraction
  y, x,            \* loop variables of the two for loops
  pc,              \* position inside detect_and_move_flakes
  placed,          \* history of line 153: [y, x, new_y, new_x] per placement
  visited,         \* history of line 127: tile origins <<x, y>> sliced so far
  result,          \* return value of detect_and_move_flakes
  file,            \* uploaded_file as seen by the two decoders
  lpc,             \* position inside load_large_image
  pil_attempted,   \* line 92 has been executed
  loaded           \* return value of load_large_image

detectVars == <<img_array, new_image, params, height, width, max_flake_size,
                step_size, total_steps, current_step, progress, y, x, pc,
                placed, visited, result>>
loadVars == <<file, lpc, pil_attempted, loaded>>
vars == <<img_array, new_image, params, height, width, max_flake_size,
          step_size, total_steps, current_step, progress, y, x, pc,
          placed, visited, result, file, lpc, pil_attempted, loaded>>

----------------------------------------------------------------------------
(* Helpers *)

Min(a, b) == IF a < b THEN a ELSE b
Max(a, b) == IF a > b THEN a ELSE b
Frac(n, d) == [n |-> n, d |-> d]

RECURSIVE SumSeq(_, _, _)
SumSeq(f, lo, hi) ==
  IF lo > hi THEN 0
  ELSE IF lo = hi THEN f[lo]
  ELSE LET mid == (lo + hi) \div 2
       IN SumSeq(f, lo, mid) + SumSeq(f, mid + 1, hi)

EmptyArray == [shape |-> <<0, 0, 0>>, data |-> <<>>]
HasData(a) == a.data # <<>>

----------------------------------------------------------------------------
(* detect_and_move_flakes: the pure computations *)

\* line 112: int(20 * flake_size_range)
MinFlakeSize(fsr) == (20 * fsr.n) \div fsr.d

\* line 113: int(200 * flake_size_range)
MaxFlakeSize(fsr) == (200 * fsr.n) \div fsr.d

\* the stride with the intensity weighted tenfold
StepSizeTenfold(mfs, ri) == (mfs * ri.d) \div (10 * ri.n + ri.d)

\* line 114: int(max_flake_size // (redistribution_intensity + 1))
StepSize(mfs, ri) == (mfs * ri.d) \div (ri.n + ri.d)

\* the row count without the final + 1
TotalStepsFloor(h, mfs, step) == (h - mfs) \div step

\* line 121: ((height - max_flake_size) // step_size) + 1
TotalSteps(h, mfs, step) == ((h - mfs) \div step) + 1

\* lines 124, 125: range(0, stop, step) for step > 0
Range(stop, step) == {k \in 0..Max(stop - 1, 0) : k < stop /\ k % step = 0}

\* line 140: int(min(height, width) * redistribution_intensity)
MoveRange(h, w, ri) == (Min(h, w) * ri.n) \div ri.d

\* lines 143-150: the values np.random.randint(low, high) can return;
\* it raises ValueError when this set is empty
RandInt(low, high) == low..(high - 1)

\* lines 143-146 and 147-150: the two arguments of randint on one axis
DrawLow(origin, mr) == Max(0, origin - mr)
DrawHigh(origin, mr, dim, mfs) == Min(dim - mfs, origin + mr)

\* a copy that loses the last row (img_array[:-1].copy())
CopyCropped(a) ==
  [shape |-> <<Max(a.shape[1] - 1, 0), a.shape[2], a.shape[3]>>,
   data  |-> IF HasData(a) THEN SubSeq(a.data, 1, Len(a.data) - 1) ELSE a.data]

\* a blank buffer of the same shape (np.zeros_like(img_array))
CopyBlank(a) ==
  [shape |-> a.shape,
   data  |-> [r \in 1..Len(a.data) |-> [c \in 1..Len(a.data[r]) |-> <<0, 0, 0>>]]]

\* line 109: img_array.copy()
Copy(a) == [shape |-> a.shape, data |-> a.data]

\* the tile sliced from the output buffer instead
TileSourceOutput(img, out) == out

\* line 127: the array the tile is sliced from is img_array
TileSource(img, out) == img

\* lines 127, 137: a[y:y+s, x:x+s].copy(); numpy clips the slice to the array
Roi(a, ty, tx, s) ==
  LET rows == Max(0, Min(s, a.shape[1] - ty))
      cols == Max(0, Min(s, a.shape[2] - tx))
  IN [shape |-> <<rows, cols, a.shape[3]>>,
      data  |-> [i \in 1..rows |-> [j \in 1..cols |-> a.data[ty + i][tx + j]]]]

\* line 130 feeding line 135: for one channel, the sum and the sum of
\* squares of the samples of the tile at (ty, tx)
ChannelSum(a, ty, tx, s, ch) ==
  SumSeq([i \in 1..s |->
            SumSeq([j \in 1..s |-> a.data[ty + i][tx + j][ch]], 1, s)], 1, s)
ChannelSumSq(a, ty, tx, s, ch) ==
  SumSeq([i \in 1..s |->
            SumSeq([j \in 1..s |->
                      a.data[ty + i][tx + j][ch] * a.data[ty + i][tx + j][ch]],
                   1, s)], 1, s)

\* N * variance of one channel, N = s*s samples, as whole + rem/N:
\* N*var = S2 - S1^2/N with S1 = q*N + r
ChannelVar(a, ty, tx, s, ch) ==
  LET N  == s * s
      S1 == ChannelSum(a, ty, tx, s, ch)
      S2 == ChannelSumSq(a, ty, tx, s, ch)
      q  == S1 \div N
      r  == S1 % N
  IN [whole |-> S2 - q * q * N - 2 * q * r - ((r * r) \div N),
      rem   |-> (r * r) % N]

\* lines 130-135: np.sum(np.var(roi, axis=(0,1))) > 500 * (1 - color_sensitivity)
\* compared exactly: N*sum(var) = I - B/N against N*threshold = P/cs.d
Exceeds(a, ty, tx, s, cs) ==
  LET N  == s * s
      v  == [ch \in 1..3 |-> ChannelVar(a, ty, tx, s, ch)]
      I  == v[1].whole + v[2].whole + v[3].whole
      B  == v[1].rem + v[2].rem + v[3].rem
      P  == 500 * (cs.d - cs.n) * N
      D  == I - (P \div cs.d)
  IN IF D >= 4 THEN TRUE
     ELSE IF D <= 0 THEN FALSE
     ELSE D * N * cs.d > B * cs.d + (P % cs.d) * N

\* line 153: new_image[new_y:new_y+s, new_x:new_x+s] = flake
\* numpy clips the slice and refuses a flake of another shape
SliceFits(buf, ny, nx, flake) ==
  /\ ny >= 0 /\ nx >= 0
  /\ flake.shape[1] = Max(0, Min(flake.shape[1], buf.shape[1] - ny))
  /\ flake.shape[2] = Max(0, Min(flake.shape[2], buf.shape[2] - nx))

SliceAssign(buf, ny, nx, flake) ==
  [shape |-> buf.shape,
   data  |-> [r \in 1..buf.shape[1] |->
                IF r - 1 \in ny..(ny + flake.shape[1] - 1)
                THEN [c \in 1..buf.shape[2] |->
                        IF c - 1 \in nx..(nx + flake.shape[2] - 1)
                        THEN flake.data[r - ny][c - nx]
                        ELSE buf.data[r][c]]
                ELSE buf.data[r]]]

----------------------------------------------------------------------------
(* Results *)

Pending  == [kind |-> "pending", array |-> EmptyArray]
NoneVal  == [kind |-> "none", array |-> EmptyArray]
\* line 166: Image.fromarray(new_image)
ImageOf(a) == [kind |-> "image", array |-> a]

\* lines 168-170: any exception ends the run with None
Raise ==
  /\ pc' = "done"
  /\ result' = NoneVal

\* line 158: progress_bar.progress(value) accepts a float in [0.0, 1.0] only
ProgressValid(p) ==
  \/ p.d > 0 /\ 0 <= p.n /\ p.n <= p.d
  \/ p.d < 0 /\ p.d <= p.n /\ p.n <= 0

----------------------------------------------------------------------------
(* Inputs of detect_and_move_flakes *)

\* Largest number of values one randint call may choose from in Spec
MaxDraws == 6

Pixel(pat, r, c) ==
  CASE pat = "flat"     -> <<7, 7, 7>>
    [] pat = "ramp"     -> <<(r + 2 * c) % 7, c % 5, r % 3>>
    [] pat = "edge"     -> IF r >= 100 \/ c >= 100 THEN <<9, 0, 0>> ELSE <<7, 7, 7>>
    [] pat = "contrast" -> IF c % 2 = 0 THEN <<0, 0, 0>> ELSE <<255, 255, 255>>

Patterns == {"flat", "ramp", "edge", "contrast"}

\* np.array(image) for a decoded 3-channel image (line 103)
MkImage(h, w, pat) ==
  [shape |-> <<h, w, 3>>,
   data  |-> [r \in 1..h |-> [c \in 1..w |-> Pixel(pat, r - 1, c - 1)]]]

\* an image whose pixel content is not represented
MkOpaque(h, w) == [shape |-> <<h, w, 3>>, data |-> <<>>]

DetectDims == {<<100, 100>>, <<102, 102>>, <<101, 199>>, <<199, 101>>}
DetectRi   == {Frac(1, 128), Frac(1, 64), Frac(1, 32), Frac(1, 2), Frac(1, 1)}
DetectFsr  == {Frac(1, 2)}
DetectCs   == {Frac(1, 2), Frac(1, 1)}

\* number of targets randint can choose from, over all tile origins of an axis
DrawsOnAxis(dim, other, fsr, ri) ==
  LET s    == MaxFlakeSize(fsr)
      step == StepSize(s, ri)
      mr   == MoveRange(dim, other, ri)
  IN {Cardinality(RandInt(DrawLow(o, mr), DrawHigh(o, mr, dim, s))) :
        o \in Range(dim - s, step)}

DetectInputs ==
  {i \in [dims : DetectDims, ri : DetectRi, fsr : DetectFsr, cs : DetectCs,
          pat : Patterns] :
     \A n \in DrawsOnAxis(i.dims[1], i.dims[2], i.fsr, i.ri)
             \cup DrawsOnAxis(i.dims[2], i.dims[1], i.fsr, i.ri) : n <= MaxDraws}

NoTiff == [status |-> "none", dtype |-> "uint8", array |-> EmptyArray]

LoadIdle ==
  /\ file = [tiff |-> NoTiff, pil |-> "none"]
  /\ lpc = "idle"
  /\ pil_attempted = FALSE
  /\ loaded = Pending

\* the state on entry to detect_and_move_flakes, after line 103
DetectEntry(img, p) ==
  /\ img_array = img
  /\ new_image = EmptyArray
  /\ params = p
  /\ height = 0 /\ width = 0
  /\ max_flake_size = 0 /\ step_size = 0
  /\ total_steps = 0 /\ current_step = 0
  /\ progress = Frac(0, 1)
  /\ y = 0 /\ x = 0
  /\ pc = "start"
  /\ placed = <<>>
  /\ visited = {}
  /\ result = Pending

Init ==
  /\ \E i \in DetectInputs :
       DetectEntry(MkImage(i.dims[1], i.dims[2], i.pat),
                   [ri |-> i.ri, fsr |-> i.fsr, cs |-> i.cs])
  /\ LoadIdle

----------------------------------------------------------------------------
(* detect_and_move_flakes: the steps *)

\* lines 124-125: entering the body of the outer loop at row ny
EnterRow(ny, w, s) ==
  /\ y' = ny
  /\ IF w - s > 0
     THEN x' = 0 /\ pc' = "tile"
     ELSE x' = x /\ pc' = "rowend"

\* lines 103-124: set-up, up to the first test of the outer loop
Start ==
  /\ pc = "start"
  /\ height' = img_array.shape[1]
  /\ width' = img_array.shape[2]
  /\ new_image' = Copy(img_array)
  /\ max_flake_size' = MaxFlakeSize(params.fsr)
  /\ step_size' = StepSize(max_flake_size', params.ri)
  /\ current_step' = 0
  /\ progress' = Frac(0, 1)
  /\ IF step_size' = 0
     THEN \* line 121 divides by zero
          /\ Raise
          /\ UNCHANGED <<total_steps, y, x>>
     ELSE /\ total_steps' = TotalSteps(height', max_flake_size', step_size')
          /\ IF height' - max_flake_size' > 0
             THEN EnterRow(0, width', max_flake_size') /\ UNCHANGED result
             ELSE pc' = "return" /\ UNCHANGED <<y, x, result>>
  /\ UNCHANGED <<img_array, params, placed, visited>>
  /\ UNCHANGED loadVars

\* line 125: the next iteration of the inner loop, or its end
NextTile ==
  IF x + step_size < width - max_flake_size
  THEN x' = x + step_size /\ pc' = "tile"
  ELSE x' = x /\ pc' = "rowend"

\* lines 127-153: one tile, with its pixels
Tile ==
  /\ pc = "tile"
  /\ visited' = visited \cup {<<x, y>>}
  /\ LET s     == max_flake_size
         mr    == MoveRange(height, width, params.ri)
         candY == RandInt(DrawLow(y, mr), DrawHigh(y, mr, height, s))
         candX == RandInt(DrawLow(x, mr), DrawHigh(x, mr, width, s))
         flake == Roi(TileSource(img_array, new_image), y, x, s)
     IN IF Exceeds(TileSource(img_array, new_image), y, x, s, params.cs)
        THEN IF candY = {} \/ candX = {}
             THEN Raise /\ UNCHANGED <<new_image, placed, x>>
             ELSE \E ny \in candY, nx \in candX :
                    IF SliceFits(new_image, ny, nx, flake)
                    THEN /\ new_image' = SliceAssign(new_image, ny, nx, flake)
                         /\ placed' = Append(placed,
                               [y |-> y, x |-> x, new_y |-> ny, new_x |-> nx])
                         /\ NextTile
                         /\ UNCHANGED result
                    ELSE Raise /\ UNCHANGED <<new_image, placed, x>>
        ELSE /\ NextTile
             /\ UNCHANGED <<new_image, placed, result>>
  /\ UNCHANGED <<img_array, params, height, width, max_flake_size, step_size,
                 total_steps, current_step, progress, y>>
  /\ UNCHANGED loadVars

\* lines 155-163 and the next test of the outer loop
EndRow ==
  /\ pc = "rowend"
  /\ current_step' = current_step + 1
  /\ IF total_steps = 0
     THEN Raise /\ UNCHANGED <<progress, y, x>>
     ELSE /\ progress' = Frac(current_step', total_steps)
          /\ IF ~ProgressValid(progress')
             THEN Raise /\ UNCHANGED <<y, x>>
             ELSE IF y + step_size < height - max_flake_size
                  THEN EnterRow(y + step_size, width, max_flake_size) /\ UNCHANGED result
                  ELSE pc' = "return" /\ UNCHANGED <<y, x, result>>
  /\ UNCHANGED <<img_array, new_image, params, height, width, max_flake_size,
                 step_size, total_steps, placed, visited>>
  /\ UNCHANGED loadVars

\* lines 165-166
Return ==
  /\ pc = "return"
  /\ pc' = "done"
  /\ result' = ImageOf(new_image)
  /\ UNCHANGED <<img_array, new_image, params, height, width, max_flake_size,
                 step_size, total_steps, current_step, progress, y, x,
                 placed, visited>>
  /\ UNCHANGED loadVars

Next == Start \/ Tile \/ EndRow \/ Return

Spec == Init /\ [][Next]_vars

----------------------------------------------------------------------------
(* Properties of detect_and_move_flakes checked under Spec *)

\* the footprints of two placements share no pixel
Disjoint(p, q, s) ==
  \/ p.new_y + s <= q.new_y \/ q.new_y + s <= p.new_y
  \/ p.new_x + s <= q.new_x \/ q.new_x + s <= p.new_x

\* C1: the footprint of every placed region is disjoint from the footprint
\* of every region placed earlier in the run, after every placement.
C1_NoOverlap ==
  \A i, j \in 1..Len(placed) :
     i < j => Disjoint(placed[i], placed[j], max_flake_size)

\* C2: the run never ends with the failure value None.
C2_NeverNone == result.kind # "none"

\* C4: the working buffer has the input's height and width from the
\* initial copy on, and so has the returned image.
C4_SameDimensions ==
  /\ pc # "start" =>
       /\ new_image.shape = img_array.shape
       /\ Len(new_image.data) = img_array.shape[1]
       /\ \A r \in 1..Len(new_image.data) :
            Len(new_image.data[r]) = img_array.shape[2]
  /\ result.kind = "image" =>
       /\ result.array.shape = img_array.shape
       /\ Len(result.array.data) = img_array.shape[1]
       /\ \A r \in 1..Len(result.array.data) :
            Len(result.array.data[r]) = img_array.shape[2]

C4_Witness ==
  /\ pc = "done" /\ result.kind = "image"
  /\ Len(placed) >= 2

\* no tile of the scan grid has a summed variance above the threshold
NoRegionDetected ==
  \A ty \in Range(height - max_flake_size, step_size),
     tx \in Range(width - max_flake_size, step_size) :
       ~Exceeds(img_array, ty, tx, max_flake_size, params.cs)

\* C5: when the scan detects no region the returned image is
\* pixel-identical to the canonical input.
C5_NoRegionIdentity ==
  (pc = "done" /\ NoRegionDetected) =>
     (result.kind = "image" /\ result.array = img_array)

C5_Witness ==
  /\ pc = "done" /\ result.kind = "image"
  /\ visited # {} /\ placed = <<>>
  /\ \E r \in 1..height : img_array.data[r][width] # img_array.data[1][1]
  /\ NoRegionDetected

\* C7: for a detected tile each target coordinate is drawn from the closed
\* interval [max(0, origin - range), min(dimension - s, origin + range)],
\* both endpoints included, and the footprint stays inside the image.
C7_ClosedInterval ==
  (pc = "tile" /\ Exceeds(img_array, y, x, max_flake_size, params.cs)) =>
     LET s  == max_flake_size
         mr == MoveRange(height, width, params.ri)
     IN /\ RandInt(DrawLow(y, mr), DrawHigh(y, mr, height, s))
             = Max(0, y - mr)..Min(height - s, y + mr)
        /\ RandInt(DrawLow(x, mr), DrawHigh(x, mr, width, s))
             = Max(0, x - mr)..Min(width - s, x + mr)
        /\ Min(height - s, y + mr) + s <= height
        /\ Min(width - s, x + mr) + s <= width

\* the pixels written by the last placement are those of the canonical
\* image under the tile it was detected at
LastPatchIsOriginal(out, log) ==
  LET p == log[Len(log)]
  IN \A i, j \in 1..max_flake_size :
        out.data[p.new_y + i][p.new_x + j] = img_array.data[p.y + i][p.x + j]

\* C9: no step writes the canonical image, and every placement writes the
\* pixels the canonical image has under the detected tile, whatever was
\* placed before.
C9_CanonicalReadOnly ==
  [][/\ img_array' = img_array
     /\ Len(placed') > Len(placed) => LastPatchIsOriginal(new_image', placed')]_vars

C9_Witness ==
  /\ Len(placed) >= 2
  /\ new_image.data # img_array.data
  /\ \E i, j \in 1..Len(placed) :
       /\ i < j
       /\ <<placed[i].new_y, placed[i].new_x>> # <<placed[i].y, placed[i].x>>
       /\ placed[j].x < placed[i].new_x + max_flake_size
       /\ placed[i].new_x < placed[j].x + max_flake_size
       /\ placed[j].y < placed[i].new_y + max_flake_size
       /\ placed[i].new_y < placed[j].y + max_flake_size

----------------------------------------------------------------------------
(* SpecScan: the same function on large images.  The pixel content is not  *)
(* represented, so whether a tile exceeds the threshold is a free input    *)
(* and the write of line 153 leaves the represented state alone.           *)

ScanHeights == {50, 100, 101, 200, 250, 400, 401, 1000}
ScanWidths  == {101, 333, 1000}
ScanRi      == {Frac(1, 128), Frac(1, 8), Frac(1, 4), Frac(1, 2), Frac(3, 4),
                Frac(1, 1)}
ScanFsr     == {Frac(1, 2), Frac(3, 4), Frac(1, 1), Frac(3, 2), Frac(2, 1)}

InitScan ==
  /\ \E h \in ScanHeights, w \in ScanWidths, ri \in ScanRi, fsr \in ScanFsr :
       DetectEntry(MkOpaque(h, w), [ri |-> ri, fsr |-> fsr, cs |-> Frac(1, 2)])
  /\ LoadIdle

\* lines 127-153: one tile, pixel content not represented
TileScan ==
  /\ pc = "tile"
  /\ visited' = visited \cup {<<x, y>>}
  /\ LET s     == max_flake_size
         mr    == MoveRange(height, width, params.ri)
         candY == RandInt(DrawLow(y, mr), DrawHigh(y, mr, height, s))
         candX == RandInt(DrawLow(x, mr), DrawHigh(x, mr, width, s))
     IN \E detected \in BOOLEAN :
          IF detected /\ (candY = {} \/ candX = {})
          THEN Raise /\ UNCHANGED x
          ELSE NextTile /\ UNCHANGED result
  /\ UNCHANGED <<img_array, new_image, params, height, width, max_flake_size,
                 step_size, total_steps, current_step, progress, y, placed>>
  /\ UNCHANGED loadVars

NextScan == Start \/ TileScan \/ EndRow \/ Return

SpecScan == InitScan /\ [][NextScan]_vars

\* the tile origins <<x, y>> on the grid of stride st inside the given limits
Grid(st, xs, ys) ==
  {i \in xs : i % st = 0} \X {j \in ys : j % st = 0}

\* C6 as stated: tile edge round(200 * fsr), stride
\* max(1, edge / (10 * ri + 1)), every origin on the stride with
\* x <= width - edge and y <= height - edge is visited.
C6_ClaimedGrid ==
  result.kind = "image" =>
    LET edge == (400 * params.fsr.n + params.fsr.d) \div (2 * params.fsr.d)
        st   == Max(1, (edge * params.ri.d) \div (10 * params.ri.n + params.ri.d))
    IN visited = Grid(st, 0..(img_array.shape[2] - edge),
                          0..(img_array.shape[1] - edge))

\* C6 amended: tile edge int(200 * fsr), stride int(edge // (ri + 1)); only
\* origins on the stride with x < width - edge and y < height - edge are
\* visited, and a run that returns an image has visited all of them; on
\* 1000x1000 with fsr = 1 and ri = 1/2 these are the multiples of 133 up
\* to 798 on both axes.
C6_ActualGrid ==
  LET edge == (200 * params.fsr.n) \div params.fsr.d
      st   == (edge * params.ri.d) \div (params.ri.n + params.ri.d)
      G    == Grid(st, 0..(img_array.shape[2] - edge - 1),
                       0..(img_array.shape[1] - edge - 1))
  IN /\ visited \subseteq G
     /\ pc = "tile" => <<x, y>> \in G
     /\ result.kind = "image" => visited = G
     /\ (/\ result.kind = "image"
         /\ img_array.shape = <<1000, 1000, 3>>
         /\ params.fsr = Frac(1, 1) /\ params.ri = Frac(1, 2))
        => visited = {<<133 * i, 133 * j>> : i, j \in 0..6}

C6_Witness ==
  /\ result.kind = "image"
  /\ img_array.shape = <<1000, 1000, 3>>
  /\ params.fsr = Frac(1, 1) /\ params.ri = Frac(1, 2)
  /\ <<798, 798>> \in visited

ProgressInRange ==
  /\ pc \in {"tile", "rowend"} =>
       (total_steps >= 1 /\ current_step < total_steps)
  /\ current_step >= 1 =>
       (/\ progress = Frac(current_step, total_steps)
        /\ 0 < progress.n
        /\ progress.n <= progress.d)

ProgressGrows ==
  current_step' # current_step =>
    (/\ progress'.d > 0
     /\ progress.d > 0
     /\ progress'.n * progress.d > progress.n * progress'.d)

\* C10: the fraction reported after each scanned row is current_step /
\* total_steps, lies in (0, 1] and grows strictly; while a row is being
\* scanned total_steps is at least 1 and exceeds the rows already counted.
C10_Progress == []ProgressInRange /\ [][ProgressGrows]_vars

C10_Witness ==
  /\ current_step >= 2
  /\ current_step = total_steps
  /\ progress = Frac(current_step, total_steps)
  /\ params.ri.n * 10 >= params.ri.d
  /\ pc = "done" /\ result.kind = "image"

----------------------------------------------------------------------------
(* load_large_image *)

\* Largest number of pixels of a decoded TIFF array in SpecLoad
MaxLoadPixels == 2

\* Sample values per dtype.  On these values the float64 arithmetic of
\* lines 53-66 agrees with the exact quotients used below.
Samples(dtype) == IF dtype = "uint8" THEN {0, 255} ELSE {0, 65535}
DTypeMax(dtype) == IF dtype = "uint8" THEN 255 ELSE 65535

\* outcomes of the cast of NaN to uint8 (undefined in the C standard)
NanCasts == 0..255

SetMin(S) == CHOOSE m \in S : \A v \in S : m <= v
SetMax(S) == CHOOSE m \in S : \A v \in S : m >= v

\* all samples of an array of shape (h, w, c)
AllSamples(a) ==
  {a.data[r][c][k] : r \in 1..a.shape[1], c \in 1..a.shape[2], k \in 1..a.shape[3]}

\* lines 52-53: ((a - a.min()) * (255.0 / (a.max() - a.min()))).astype(uint8);
\* with a.max() = a.min() the factor is inf, every product 0 * inf is NaN
\* and the cast yields nan
Normalize(a, dtype, nan) ==
  IF dtype = "uint8" THEN a
  ELSE LET lo == SetMin(AllSamples(a))
           hi == SetMax(AllSamples(a))
       IN [shape |-> a.shape,
           data  |-> [r \in 1..a.shape[1] |-> [c \in 1..a.shape[2] |->
                        [k \in 1..a.shape[3] |->
                           IF hi = lo THEN nan
                           ELSE ((a.data[r][c][k] - lo) * 255) \div (hi - lo)]]]]

\* line 53: the casts of NaN the normalisation can meet (one outcome when
\* no NaN arises)
NormalizeCasts(a, dtype) ==
  IF dtype # "uint8" /\ SetMax(AllSamples(a)) = SetMin(AllSamples(a))
  THEN NanCasts ELSE {0}

\* lines 56-66 for one pixel: (1 - c)(1 - k) * 255 truncated, per channel
CmykPixel(px) ==
  [k \in 1..3 |-> ((255 - px[k]) * (255 - px[4])) \div 255]

\* lines 56-66
CmykToRgb(a) ==
  [shape |-> <<a.shape[1], a.shape[2], 3>>,
   data  |-> [r \in 1..a.shape[1] |-> [c \in 1..a.shape[2] |->
                CmykPixel(a.data[r][c])]]]

\* line 71: Image.fromarray accepts 8-bit arrays of 2, 3 or 4 channels
FromArrayOk(a, dtype) == dtype = "uint8" /\ a.shape[3] \in {2, 3, 4}

\* a decoded array of 1 x n pixels, given as its row of pixels
RowArray(row, c) == [shape |-> <<1, Len(row), c>>, data |-> <<row>>]

\* a 2-D (single plane) array
GrayArray == [shape |-> <<1, 1>>, data |-> <<<<0>>>>]

DTypes == {"uint8", "uint16"}

TiffOf(dtype, a) == [status |-> "array", dtype |-> dtype, array |-> a]

\* outcomes of tifffile other than a 4-channel array: a corrupt stream, a
\* single plane, and 3- or 5-channel arrays of either depth
OtherTiffs ==
  {[status |-> "error", dtype |-> "uint8", array |-> EmptyArray],
   TiffOf("uint8", GrayArray)}
  \cup {TiffOf(d, RowArray(<<[k \in 1..c |-> 0]>>, c)) : d \in DTypes, c \in {3, 5}}

PilOutcomes == {"fail", "RGB", "CMYK"}

InitLoad ==
  /\ LoadIdle
  /\ DetectEntry(EmptyArray, [ri |-> Frac(1, 2), fsr |-> Frac(1, 1), cs |-> Frac(1, 2)])

\* lines 182-192: a file is uploaded and handed to load_large_image
Upload ==
  /\ lpc = "idle"
  /\ \E p \in PilOutcomes :
       \/ \E t \in OtherTiffs : file' = [tiff |-> t, pil |-> p]
       \/ \E d \in DTypes, n \in 1..MaxLoadPixels :
            \E row \in [1..n -> [1..4 -> Samples(d)]] :
              file' = [tiff |-> TiffOf(d, RowArray(row, 4)), pil |-> p]
  /\ lpc' = "start"
  /\ UNCHANGED <<pil_attempted, loaded>>
  /\ UNCHANGED detectVars

\* lines 24-80: the primary path, up to its return or to the raise
LoadPrimary ==
  /\ lpc = "start"
  /\ LET t == file.tiff
     IN IF t.status = "error"
        THEN lpc' = "except" /\ UNCHANGED loaded
        ELSE IF Len(t.array.shape) = 3
             THEN IF t.array.shape[3] = 4
                  THEN \E nan \in NormalizeCasts(t.array, t.dtype) :
                         /\ loaded' = ImageOf(CmykToRgb(Normalize(t.array, t.dtype, nan)))
                         /\ lpc' = "done"
                  ELSE IF FromArrayOk(t.array, t.dtype)
                       THEN loaded' = ImageOf(t.array) /\ lpc' = "done"
                       ELSE lpc' = "except" /\ UNCHANGED loaded
             ELSE \* lines 73-74
                  loaded' = NoneVal /\ lpc' = "done"
  /\ UNCHANGED <<file, pil_attempted>>
  /\ UNCHANGED detectVars

\* lines 82-98: the handler with the PIL path
LoadFallback ==
  /\ lpc = "except"
  /\ pil_attempted' = TRUE
  /\ lpc' = "done"
  /\ IF file.pil = "fail"
     THEN loaded' = NoneVal
     ELSE loaded' = ImageOf(MkOpaque(1, 1))
  /\ UNCHANGED file
  /\ UNCHANGED detectVars

NextLoad == Upload \/ LoadPrimary \/ LoadFallback

SpecLoad == InitLoad /\ [][NextLoad]_vars

\* C3: None is returned only after the PIL path has been tried.
C3_FallbackBeforeNone == loaded.kind = "none" => pil_attempted

IsCmyk(t) ==
  t.status = "array" /\ Len(t.array.shape) = 3 /\ t.array.shape[3] = 4

\* C8: a 4-channel input with every sample 0 decodes to (255, 255, 255) at
\* every pixel, and one whose K is the maximum of its bit depth at every
\* pixel decodes to (0, 0, 0) at every pixel.
C8_WhiteAndBlack ==
  (lpc = "done" /\ IsCmyk(file.tiff)) =>
     LET a == file.tiff.array
     IN /\ AllSamples(a) = {0} =>
            (/\ loaded.kind = "image"
             /\ \A c \in 1..a.shape[2] :
                  loaded.array.data[1][c] = <<255, 255, 255>>)
        /\ (\A c \in 1..a.shape[2] : a.data[1][c][4] = DTypeMax(file.tiff.dtype)) =>
            (/\ loaded.kind = "image"
             /\ \A c \in 1..a.shape[2] :
                  loaded.array.data[1][c] = <<0, 0, 0>>)

====
